---- MODULE Spec2Model ----
(***************************************************************************)
(* sshagentca: an SSH server that authenticates a client by public key or  *)
(* by an OpenID Connect code entered over keyboard-interactive, mints a    *)
(* user certificate and injects it into the client's forwarded agent.      *)
(*                                                                         *)
(* The model follows server.go (Serve, addCertificate, chanCloser,         *)
(* handleChannels), util/settings.go (SettingsLoad, validate,              *)
(* buildNameMap, UserByName) and util/keyload.go (LoadAuthorizedKeysBytes, *)
(* OpenIDC.CodeToIDToken).  The accept loop of Serve is one sequential     *)
(* process (the listener); every handleChannels goroutine is a worker.     *)
(* Blocking calls are split at the point where they wait for the client,   *)
(* the OIDC provider or the timer.                                         *)
(***************************************************************************)
EXTENDS Integers, Sequences, FiniteSets, TLC

\* ------------------------------------------------------------------ bounds

\* authentication attempts the SSH library allows in one handshake
MaxAuthTries == 2
\* channel requests the clients send in one run, over all session channels
MaxRequests == 2

\* the TCP connections of one run, in the order the listener accepts them
Conns == {1, 2}

\* Go's nil (error or pointer)
Nil == "nil"

\* ------------------------------------------------- keys and authorized_keys

\* public keys a client may offer; K3 is configured for nobody
Keys == {"K1", "K3"}

\* an authorized_keys blob is a sequence of lines; a line is a key or a line
\* that holds no key (junk, a comment, a blank line)
BadLine == "not-a-key"

\* a parser that fails on the first line that holds no key
ParseAuthorizedKeyStrict(in) ==
    IF Len(in) = 0 \/ Head(in) \notin Keys
    THEN [out |-> Nil, rest |-> <<>>, err |-> "ssh: no key found"]
    ELSE [out |-> Head(in), rest |-> Tail(in), err |-> Nil]

\* ssh.ParseAuthorizedKey: the first key of the input and the input after its
\* line; lines that hold no key are passed over, and the call fails only when
\* no line of the input holds a key
RECURSIVE ParseAuthorizedKey(_)
ParseAuthorizedKey(in) ==
    IF Len(in) = 0
    THEN [out |-> Nil, rest |-> <<>>, err |-> "ssh: no key found"]
    ELSE IF Head(in) \in Keys
         THEN [out |-> Head(in), rest |-> Tail(in), err |-> Nil]
         ELSE ParseAuthorizedKey(Tail(in))

\* the loop of LoadAuthorizedKeysBytes, akeys being the keys found so far
RECURSIVE ParseAuthorizedKeys(_, _)
ParseAuthorizedKeys(authorizedKeysBytes, akeys) ==
    IF Len(authorizedKeysBytes) = 0
    THEN [keys |-> akeys, err |-> Nil]
    ELSE LET r == ParseAuthorizedKey(authorizedKeysBytes) IN
         IF r.err # Nil
         THEN [keys |-> akeys, err |-> "Error parsing public key"]
         ELSE ParseAuthorizedKeys(r.rest, Append(akeys, r.out))

LoadAuthorizedKeysBytes(authorizedKeysBytes) ==
    ParseAuthorizedKeys(authorizedKeysBytes, <<>>)

\* the unpadded base64 SHA-256 digest of a key: 43 characters, one per key
Digest(key) == key \o "+" \o "0123456789abcdefghijABCDEFGHIJ0123456789"

\* ssh.FingerprintSHA256: "SHA256:" followed by the digest, 50 characters
FingerprintSHA256(key) == "SHA256:" \o Digest(key)

\* ------------------------------------------------------------ configuration

minvalidity == 60
maxvalidity == 86400

permittedExtensions ==
    {"permit-agent-forwarding", "permit-port-forwarding", "permit-pty",
     "permit-X11-forwarding", "permit-user-rc"}

\* the identity checks without the one of the principals
identityAnyPrincipals(v) ==
    IF v.Name = "" THEN "user provided with empty name"
    ELSE IF v.AuthorizedKey = <<>> /\ v.OIDCSubject = ""
    THEN "user has no authorized_key or oidc_subject"
    ELSE Nil

\* validate, loop over s.Users: the checks of the name, the principals and
\* the presence of a credential in one record
identityErr(v) ==
    IF v.Name = "" THEN "user provided with empty name"
    ELSE IF Len(v.Principals) = 0 THEN "user provided with no principals"
    ELSE IF v.AuthorizedKey = <<>> /\ v.OIDCSubject = ""
    THEN "user has no authorized_key or oidc_subject"
    ELSE Nil

\* the key checks without the comparison of the fingerprint
keyErrAnyFingerprint(v) ==
    IF v.AuthorizedKey # <<>>
    THEN LET r == LoadAuthorizedKeysBytes(v.AuthorizedKey) IN
         IF r.err # Nil THEN r.err
         ELSE IF Len(r.keys) # 1
         THEN "unexpected number of keys in authorized_key entry"
         ELSE Nil
    ELSE IF v.Fingerprint # "" THEN "user has fingerprint but no authorized_key"
    ELSE Nil

\* the key checks without the rejection of a fingerprint that has no key
keyErrFingerprintOnly(v) ==
    IF v.AuthorizedKey # <<>>
    THEN LET r == LoadAuthorizedKeysBytes(v.AuthorizedKey) IN
         IF r.err # Nil THEN r.err
         ELSE IF Len(r.keys) # 1
         THEN "unexpected number of keys in authorized_key entry"
         ELSE IF v.Fingerprint # ""
                 /\ v.Fingerprint # FingerprintSHA256(r.keys[1])
         THEN "mismatched fingerprint and public key"
         ELSE Nil
    ELSE Nil

\* the key checks without the count of the parsed keys
keyErrAnyCount(v) ==
    IF v.AuthorizedKey # <<>>
    THEN LET r == LoadAuthorizedKeysBytes(v.AuthorizedKey) IN
         IF r.err # Nil THEN r.err
         ELSE IF v.Fingerprint # "" /\ Len(r.keys) >= 1
                 /\ v.Fingerprint # FingerprintSHA256(r.keys[1])
         THEN "mismatched fingerprint and public key"
         ELSE Nil
    ELSE IF v.Fingerprint # "" THEN "user has fingerprint but no authorized_key"
    ELSE Nil

\* validate, loop over s.Users: the checks of authorized_key and fingerprint
keyErr(v) ==
    IF v.AuthorizedKey # <<>>
    THEN LET r == LoadAuthorizedKeysBytes(v.AuthorizedKey) IN
         IF r.err # Nil THEN r.err
         ELSE IF Len(r.keys) # 1
         THEN "unexpected number of keys in authorized_key entry"
         ELSE IF v.Fingerprint # ""
                 /\ v.Fingerprint # FingerprintSHA256(r.keys[1])
         THEN "mismatched fingerprint and public key"
         ELSE Nil
    ELSE IF v.Fingerprint # "" THEN "user has fingerprint but no authorized_key"
    ELSE Nil

\* validate, the loop body over s.Users: the error of one user record
validateUser(v) ==
    IF identityErr(v) # Nil THEN identityErr(v) ELSE keyErr(v)

\* validate stores the parsed keys in the record (v.publicKeys = keys)
withPublicKeys(v) ==
    [v EXCEPT !.publicKeys =
        IF v.AuthorizedKey # <<>> /\ validateUser(v) = Nil
        THEN LoadAuthorizedKeysBytes(v.AuthorizedKey).keys
        ELSE @]

\* index of the first user record validate rejects, 0 when there is none
firstBadUser(users) ==
    LET bad == {i \in 1 .. Len(users) : validateUser(users[i]) # Nil} IN
    IF bad = {} THEN 0 ELSE CHOOSE i \in bad : \A j \in bad : i <= j

\* the validity check without its upper limit
validityNoMaximum(s) ==
    IF s.Validity < minvalidity THEN "validity is below minimum validity"
    ELSE Nil

\* validate: the check of the validity period
validityErr(s) ==
    IF s.Validity < minvalidity THEN "validity is below minimum validity"
    ELSE IF s.Validity > maxvalidity THEN "validity is above maximum validity"
    ELSE Nil

\* the extensions check without the comparison of the values
extensionsAnyValue(s) ==
    IF \E k \in DOMAIN s.Extensions : k \notin permittedExtensions
    THEN "extension not permitted"
    ELSE Nil

\* validate: the check of the extensions against permittedExtensions
extensionsErr(s) ==
    IF \E k \in DOMAIN s.Extensions : k \notin permittedExtensions
    THEN "extension not permitted"
    ELSE IF \E k \in DOMAIN s.Extensions : s.Extensions[k] # ""
    THEN "value for key not permitted"
    ELSE Nil

\* no check of the oidc section
oidcNotRequired(s) == Nil

\* validate: the check after the loop, foundOIDC && s.OpenIDC == nil
oidcErr(s) ==
    IF (\E i \in 1 .. Len(s.Users) : s.Users[i].OIDCSubject # "")
       /\ s.OpenIDC = Nil
    THEN "oidc authorization used but oidc provider not configured"
    ELSE Nil

validate(s) ==
    IF validityErr(s) # Nil THEN validityErr(s)
    ELSE IF extensionsErr(s) # Nil THEN extensionsErr(s)
    ELSE IF firstBadUser(s.Users) # 0
    THEN validateUser(s.Users[firstBadUser(s.Users)])
    ELSE oidcErr(s)

\* buildNameMap: the error, then the map it builds
buildNameMapErr(s) ==
    IF \E i, j \in 1 .. Len(s.Users) : i < j /\ s.Users[i].Name = s.Users[j].Name
    THEN "duplicate entry for user"
    ELSE Nil

buildNameMap(s) ==
    [s EXCEPT !.usersByName =
        [n \in {s.Users[i].Name : i \in 1 .. Len(s.Users)} |->
            LET i == CHOOSE k \in 1 .. Len(s.Users) : s.Users[k].Name = n
            IN  s.Users[i]]]

\* the oidc sections a file may hold: a complete one whose issuer answers,
\* one without an issuer, and a complete one whose issuer cannot be reached
OIDCSections == {"oidc", "oidc-no-issuer", "oidc-unreachable"}

\* OpenIDC.Init: the error it returns
OpenIDCInit(app) ==
    IF app = "oidc-no-issuer" THEN "issuer is missing"
    ELSE IF app = "oidc-unreachable" THEN "provider discovery failed"
    ELSE Nil

\* SettingsLoad after the YAML is decoded: the settings and the error
SettingsLoad(s) ==
    IF Len(s.Users) = 0
    THEN [s |-> s, err |-> "no valid users found in yaml file"]
    ELSE IF validate(s) # Nil THEN [s |-> s, err |-> validate(s)]
    ELSE LET v == [s EXCEPT !.Users =
                      [i \in 1 .. Len(s.Users) |-> withPublicKeys(s.Users[i])]]
         IN  IF buildNameMapErr(v) # Nil
             THEN [s |-> v, err |-> buildNameMapErr(v)]
             ELSE IF v.OpenIDC # Nil /\ OpenIDCInit(v.OpenIDC) # Nil
             THEN [s |-> buildNameMap(v), err |-> OpenIDCInit(v.OpenIDC)]
             ELSE [s |-> buildNameMap(v), err |-> Nil]

UserByName(s, name) ==
    IF name \in DOMAIN s.usersByName
    THEN [up |-> s.usersByName[name], err |-> Nil]
    ELSE [up |-> Nil, err |-> "user not found"]

PublicKeys(up) == up.publicKeys

\* the user records of the configuration files considered
UserAlice ==
    [Name |-> "alice", AuthorizedKey |-> <<"K1">>,
     Fingerprint |-> FingerprintSHA256("K1"), OIDCSubject |-> "",
     Principals |-> <<"alice", "admins">>, publicKeys |-> <<>>]

UserBob ==
    [Name |-> "bob", AuthorizedKey |-> <<>>,
     Fingerprint |-> "", OIDCSubject |-> "sub-b",
     Principals |-> <<"bob">>, publicKeys |-> <<>>]

YamlFile(users, oidc) ==
    [Validity |-> 3600, Banner |-> "acmecorp ssh user certificate service",
     Extensions |-> [k \in {"permit-pty"} |-> ""],
     Users |-> users, OpenIDC |-> oidc, usersByName |-> << >>]

\* the decoded configuration files: one user without an oidc section, two
\* users with and without it, a file that names one user twice, and one-user
\* files with the longest validity and with one step more
YamlFiles ==
    {YamlFile(<<UserAlice>>, Nil),
     YamlFile(<<UserAlice, UserBob>>, "oidc"),
     YamlFile(<<UserAlice, UserBob>>, Nil),
     YamlFile(<<UserAlice, UserAlice>>, "oidc"),
     [YamlFile(<<UserAlice>>, Nil) EXCEPT !.Validity = maxvalidity],
     [YamlFile(<<UserAlice>>, Nil) EXCEPT !.Validity = maxvalidity + 1]}

\* the settings main() passes to Serve: those SettingsLoad returns without error
LoadedSettings == {SettingsLoad(y).s : y \in {f \in YamlFiles : SettingsLoad(f).err = Nil}}

\* ------------------------------------------------- inputs of the loader

\* lines of the longest authorized_keys input handed to LoadAuthorizedKeysBytes
MaxKeyLines == 4

KeyLines == Keys \cup {BadLine}

\* the inputs of LoadAuthorizedKeysBytes: every blob of at most MaxKeyLines lines
KeyBlobs == UNION {[1 .. n -> KeyLines] : n \in 0 .. MaxKeyLines}

\* the authorized_key fields of the user records: none, one key, a line
\* without a key, two keys, junk before a key, junk after a key
UserKeyBlobs ==
    {<<>>, <<"K1">>, <<"K3">>, <<BadLine>>, <<"K1", "K3">>,
     <<BadLine, "K1">>, <<"K1", BadLine>>}

\* the fingerprint fields: none, the fingerprints of K1 and K3, that of K1
\* cut to 49 characters, that of K1 with one character changed, a short word
TruncatedFingerprint == SubSeq(FingerprintSHA256("K1"), 1, 49)

AlteredFingerprint ==
    "SHA256:K1-" \o "0123456789abcdefghijABCDEFGHIJ0123456789"

Fingerprints ==
    {"", FingerprintSHA256("K1"), FingerprintSHA256("K3"),
     TruncatedFingerprint, AlteredFingerprint, "fingerprint"}

UserRecord(name, key, fp, sub, principals) ==
    [Name |-> name, AuthorizedKey |-> key, Fingerprint |-> fp,
     OIDCSubject |-> sub, Principals |-> principals, publicKeys |-> <<>>]

\* the records of the one-user files
UserRecords ==
    {UserRecord(n, k, f, s, p) :
        n \in {"", "alice"}, k \in UserKeyBlobs, f \in Fingerprints,
        s \in {"", "sub-b"}, p \in {<<>>, <<"staff">>}}

\* the second records of the two-user files, after UserAlice or UserBob
SecondRecords ==
    {UserRecord(n, k, f, s, p) :
        n \in {"alice", "bob", "carol"}, k \in {<<>>, <<"K1">>, <<"K3">>},
        f \in {"", FingerprintSHA256("K1")},
        s \in {"", "sub-b"}, p \in {<<>>, <<"staff">>}}

Validities == {minvalidity - 1, minvalidity, 3600, maxvalidity, maxvalidity + 1}

\* extension maps of at most two entries over the allow-list and one unknown
\* key, with an empty or a non-empty value, and the map of the whole allow-list
ExtensionKeys == permittedExtensions \cup {"permit-root"}

ExtensionMaps ==
    UNION {[D -> {"", "yes"}] :
              D \in {S \in SUBSET ExtensionKeys : Cardinality(S) <= 2}}
    \cup {[k \in permittedExtensions |-> ""]}

YamlDoc(validity, extensions, users, oidc) ==
    [Validity |-> validity, Banner |-> "acmecorp ssh user certificate service",
     Extensions |-> extensions, Users |-> users, OpenIDC |-> oidc,
     usersByName |-> << >>]

\* the decoded files handed to SettingsLoad: every validity and extension map
\* around one good user, every single user record and every pair of records
\* under each oidc section, and files without users
YamlDocs ==
    {YamlDoc(v, e, <<UserAlice>>, Nil) : v \in Validities, e \in ExtensionMaps}
    \cup {YamlFile(<<u>>, o) : u \in UserRecords, o \in {Nil} \cup OIDCSections}
    \cup {YamlFile(<<u, w>>, o) :
              u \in {UserAlice, UserBob}, w \in SecondRecords, o \in {Nil, "oidc"}}
    \cup {YamlFile(<<>>, o) : o \in {Nil, "oidc"}}
    \cup YamlFiles

\* ------------------------------------------------------------- OIDC verifier

\* the sub claims a verified ID token may carry; "" is a token without one
Subjects == {"", "sub-b", "sub-x"}

\* what the provider's token endpoint answers to one code exchange: the
\* error of oauth2.Exchange, the id_token field of the response (Nil when the
\* response has no id_token string, else a JWT the verifier accepts or not)
\* and the sub claim of that JWT
TokenResponses ==
    {[exchangeErr |-> "oauth2: cannot fetch token", rawIDToken |-> Nil, sub |-> ""],
     [exchangeErr |-> Nil, rawIDToken |-> Nil, sub |-> ""],
     [exchangeErr |-> Nil, rawIDToken |-> "jwt-invalid", sub |-> ""]}
    \cup {[exchangeErr |-> Nil, rawIDToken |-> "jwt-valid", sub |-> s] : s \in Subjects}

NilToken == [isNil |-> TRUE, Subject |-> ""]

\* OpenIDC.CodeToIDToken: (idToken, err)
CodeToIDToken(resp) ==
    LET err == resp.exchangeErr IN
    IF err # Nil THEN [idToken |-> NilToken, err |-> err]
    ELSE IF resp.rawIDToken = Nil THEN [idToken |-> NilToken, err |-> err]
    ELSE IF resp.rawIDToken # "jwt-valid"
    THEN [idToken |-> NilToken, err |-> "oidc: failed to verify ID token"]
    ELSE [idToken |-> [isNil |-> FALSE, Subject |-> resp.sub], err |-> Nil]

\* ------------------------------------------------------------------- state

\* login names a client may claim; mallory is the name of no user record
LoginNames == {"alice", "bob", "mallory"}

VARIABLES
    settings,   \* the loaded util.Settings, read-only after load
    lpc,        \* where the accept loop of Serve stands
    cur,        \* the connection the accept loop is handling, 0 for none
    nconn,      \* TCP connections accepted so far
    hs,         \* the handshake in progress: failed attempts, claimed user
    lastAuth,   \* the last authentication attempt of that handshake
    exch,       \* what CodeToIDToken returned in that attempt
    prompts,    \* keyboard-interactive challenges sent in that attempt
    logmsg,     \* what the current turn of the accept loop has logged
    load,       \* the call in progress before Serve, its input and its result
    conn        \* per connection: the SSH connection, its channels, its worker

vars == <<settings, load, lpc, cur, nconn, hs, lastAuth, exch, prompts, logmsg, conn>>

NoCred == [kind |-> "none", id |-> ""]

NoAuth == [method |-> "none", user |-> "", key |-> "", sub |-> "",
           signed |-> FALSE, ok |-> FALSE, err |-> Nil]

NoExchange == [called |-> FALSE, idToken |-> NilToken, err |-> Nil]

NoHandshake == [tries |-> 0, user |-> ""]

NoRequest == [type |-> "", wantReply |-> FALSE, reply |-> "none"]

NewConn ==
    [st |-> "new",            \* new, handshake, failed, open, closed
     user |-> "",             \* sshConn.User()
     proved |-> NoCred,       \* the credential the successful attempt proved
     rec |-> "",              \* Name of the user record passed to addCertificate
     agent |-> "none",        \* the reverse channel: none, requested, refused, open, closed
     certs |-> <<>>,          \* certificates sent to the client's agent
     message |-> "",          \* addCertificate's message
     result |-> "pending",    \* addCertificate's error: pending, nil or an error text
     wpc |-> "none",          \* handleChannels: none, SelectChan, Requests, Done
     limit |-> FALSE,         \* the deadline timer is armed
     sess |-> "none",         \* the first channel: none, accepted, Prohibited, accept-error
     chanType |-> "",         \* the type of the first channel the client opened
     naccept |-> 0,           \* channels the server has accepted
     extra |-> FALSE,         \* a later channel open waits unread in chans
     out |-> <<>>,            \* what the server sent on the session channel, in order
     sentClose |-> FALSE,     \* the server has sent channel close on the session channel
     exits |-> <<>>,          \* exit-status values sent on the session channel
     term |-> <<>>,           \* lines written to the session channel
     nreq |-> 0,              \* channel requests received
     shells |-> 0,            \* shell requests handled (calls of chanCloser)
     last |-> NoRequest,      \* the last channel request and the reply sent to it
     why |-> ""]              \* why handleChannels returned

\* a call made before Serve: its name, the decoded file or the key blob it is
\* given, and the keys and the error it returns
LoadCall(pc, yaml, blob) ==
    [pc |-> pc, yaml |-> yaml, blob |-> blob, akeys |-> <<>>, err |-> Nil]

\* the zero value of util.Settings
NoSettings ==
    [Validity |-> 0, Banner |-> "", Extensions |-> << >>, Users |-> << >>,
     OpenIDC |-> Nil, usersByName |-> << >>]

Init ==
    /\ settings \in LoadedSettings
    /\ load \in {LoadCall("Serve", y, <<>>) : y \in YamlFiles}
    /\ settings = SettingsLoad(load.yaml).s
    /\ lpc = "Accept"
    /\ cur = 0
    /\ nconn = 0
    /\ hs = NoHandshake
    /\ lastAuth = NoAuth
    /\ exch = NoExchange
    /\ prompts = <<>>
    /\ logmsg = ""
    /\ conn = [c \in Conns |-> NewConn]

Running == lpc # "Crashed"

\* ------------------------------------------------- authentication callbacks

\* a callback that looks the user up but never compares the offered key
PublicKeyCallbackAcceptAll(s, user, pubKey) ==
    LET u == UserByName(s, user) IN
    IF u.err # Nil THEN u.err ELSE Nil

\* Serve.PublicKeyCallback: the error it returns
\* a callback that looks the key up among all records, not under the login name
PublicKeyCallbackByKey(s, user, pubKey) ==
    IF \E i \in 1 .. Len(s.Users) :
          \E j \in 1 .. Len(s.Users[i].publicKeys) : s.Users[i].publicKeys[j] = pubKey
    THEN Nil
    ELSE "unknown public key"

PublicKeyCallback(s, user, pubKey) ==
    LET u == UserByName(s, user) IN
    IF u.err # Nil THEN u.err
    ELSE IF \E i \in 1 .. Len(PublicKeys(u.up)) : pubKey = PublicKeys(u.up)[i]
    THEN Nil
    ELSE "unknown public key"

\* Serve.KeyboardInteractiveCallback, the comparison of the token with the record
subjectMatches(idToken, u) == idToken.Subject = u.OIDCSubject

\* OpenIDC.AuthCodeURL: the provider's authorization URL for a state value
AuthCodeURL(state) == "https://issuer.example/auth?state=" \o state

\* the first challenge of the keyboard-interactive callback
codePrompt ==
    [instruction |-> "Visit this URL to obtain auth code:\n" \o AuthCodeURL("") \o "\n",
     questions |-> <<"Enter your auth code: ">>, echos |-> <<TRUE>>]

\* the challenge sent when the subject is not the user's
notAuthorizedPrompt(sub) ==
    [instruction |-> "Not authorized for this service: " \o sub,
     questions |-> <<>>, echos |-> <<>>]

\* one publickey attempt: the callback's error, and whether the library
\* accepts it (the callback returned nil and the signature was verified)
pubKeyAttempt(name, pubKey, signed, err) ==
    [method |-> "publickey", user |-> name, key |-> pubKey, sub |-> "",
     signed |-> signed, ok |-> (err = Nil /\ signed), err |-> err]

\* one keyboard-interactive attempt: the callback's error
kiAttempt(name, sub, err) ==
    [method |-> "keyboard-interactive", user |-> name, key |-> "", sub |-> sub,
     signed |-> FALSE, ok |-> (err = Nil), err |-> err]

\* -------------------------------------------------------- the accept loop

\* a Serve that starts the worker before it calls addCertificate
afterHandshakeSpawn(cr, name, cred, up) ==
    [cr EXCEPT !.st = "open", !.user = name, !.proved = cred,
               !.rec = up.Name, !.agent = "requested",
               !.wpc = "SelectChan", !.limit = TRUE]

\* Serve after a successful handshake, up to the OpenChannel call of
\* addCertificate: the connection record
afterHandshake(cr, name, cred, up) ==
    [cr EXCEPT !.st = "open", !.user = name, !.proved = cred,
               !.rec = up.Name, !.agent = "requested"]

\* go handleChannels(...): the worker starts and arms its deadline
startWorker(cr) == [cr EXCEPT !.wpc = "SelectChan", !.limit = TRUE]

\* addCertificate returns (message, err) and Serve starts the worker
addCertificateReturns(cr, agent, message, err) ==
    startWorker([cr EXCEPT !.agent = agent, !.message = message, !.result = err])

\* a certificate whose window is one step longer than the configured validity
MintCertificateLonger(s, up) ==
    [principals |-> up.Principals, validity |-> s.Validity + 1,
     extensions |-> DOMAIN s.Extensions]

\* addCertToAgent: the certificate minted for the user record; validity is
\* the length of its window, valid_before - valid_after
MintCertificate(s, up) ==
    [principals |-> up.Principals, validity |-> s.Validity,
     extensions |-> DOMAIN s.Extensions]

\* the accept loop comes back to listener.Accept: the handshake's data is gone
BackToAccept ==
    /\ lpc' = "Accept"
    /\ cur' = 0
    /\ hs' = NoHandshake
    /\ lastAuth' = NoAuth
    /\ exch' = NoExchange
    /\ prompts' = <<>>

\* ssh.NewServerConn returns an error: log and continue
HandshakeFails ==
    /\ conn' = [conn EXCEPT ![cur].st = "failed"]
    /\ logmsg' = "failed to handshake"
    /\ BackToAccept

\* a callback returned an error: the library counts the failed attempt `a`
AttemptFails(a, x, p) ==
    IF hs.tries + 1 >= MaxAuthTries
    THEN HandshakeFails
    ELSE /\ hs' = [tries |-> hs.tries + 1, user |-> a.user]
         /\ lastAuth' = a
         /\ exch' = x
         /\ prompts' = p
         /\ lpc' = "Handshake"
         /\ UNCHANGED <<conn, cur, logmsg>>

\* ssh.NewServerConn returns a connection: extract user, call addCertificate
HandshakeSucceeds(a, x, cred) ==
    LET u == UserByName(settings, a.user) IN
    IF u.err # Nil
    THEN /\ conn' = [conn EXCEPT ![cur] =
                        [@ EXCEPT !.st = "closed", !.user = a.user, !.proved = cred,
                                  !.why = "INTERNAL ERROR"]]
         /\ logmsg' = "INTERNAL ERROR: unable to find user"
         /\ BackToAccept
    ELSE /\ conn' = [conn EXCEPT ![cur] = afterHandshake(@, a.user, cred, u.up)]
         /\ lpc' = "AgentOpen"
         /\ logmsg' = "new ssh connection"
         /\ hs' = NoHandshake
         /\ lastAuth' = a
         /\ exch' = x
         /\ UNCHANGED <<cur, prompts>>

\* listener.Accept returns a connection; ssh.NewServerConn starts the handshake
TcpAccept ==
    /\ lpc = "Accept"
    /\ nconn < Cardinality(Conns)
    /\ nconn' = nconn + 1
    /\ cur' = nconn + 1
    /\ lpc' = "Handshake"
    /\ logmsg' = ""
    /\ conn' = [conn EXCEPT ![nconn + 1].st = "handshake"]
    /\ UNCHANGED <<settings, load, hs, lastAuth, exch, prompts>>

\* listener.Accept returns an error
AcceptError ==
    /\ lpc = "Accept"
    /\ nconn < Cardinality(Conns)
    /\ logmsg' = "failed to accept incoming connection"
    /\ UNCHANGED <<settings, load, lpc, cur, nconn, hs, lastAuth, exch, prompts, conn>>

\* the client ends the handshake (disconnect, protocol error)
HandshakeAbort ==
    /\ lpc \in {"Handshake", "KIAnswer", "KIFinal"}
    /\ HandshakeFails
    /\ UNCHANGED <<settings, load, nconn>>

\* a publickey request for login name `name` with key `pubKey`; `signed` when
\* the client proves possession of the key
PubKeyAuth(name, pubKey, signed) ==
    /\ lpc = "Handshake"
    /\ LET a == pubKeyAttempt(name, pubKey, signed,
                              PublicKeyCallback(settings, name, pubKey))
       IN  IF a.ok
           THEN HandshakeSucceeds(a, NoExchange, [kind |-> "publickey", id |-> pubKey])
           ELSE AttemptFails(a, NoExchange, <<>>)
    /\ UNCHANGED <<settings, load, nconn>>

\* a callback that takes the provider for configured
oidcAssumed(s) == TRUE

\* Serve.KeyboardInteractiveCallback, its first test: settings.OpenIDC != nil
oidcConfigured(s) == s.OpenIDC # Nil

\* a keyboard-interactive request: the callback up to its first challenge
KIStart(name) ==
    /\ lpc = "Handshake"
    /\ IF ~oidcConfigured(settings)
       THEN AttemptFails(kiAttempt(name, "", "OpenIDC not configured"), NoExchange, <<>>)
       ELSE /\ prompts' = <<codePrompt>>
            /\ hs' = [hs EXCEPT !.user = name]
            /\ lastAuth' = NoAuth
            /\ exch' = NoExchange
            /\ lpc' = "KIAnswer"
            /\ UNCHANGED <<conn, cur, logmsg>>
    /\ UNCHANGED <<settings, load, nconn>>

\* the client answers the challenge with n answers
KIAnswer(n) ==
    /\ lpc = "KIAnswer"
    /\ IF n # 1
       THEN AttemptFails(kiAttempt(hs.user, "", "Unexpected number of answers"),
                         NoExchange, prompts)
       ELSE /\ lpc' = "KIExchange"
            /\ UNCHANGED <<lastAuth, exch, prompts, hs, conn, cur, logmsg>>
    /\ UNCHANGED <<settings, load, nconn>>

\* the token endpoint answers: the rest of the callback
KIExchange(resp) ==
    /\ lpc = "KIExchange"
    /\ LET r == CodeToIDToken(resp)
           u == UserByName(settings, hs.user)
           x == [called |-> TRUE, idToken |-> r.idToken, err |-> r.err]
           a(err) == kiAttempt(hs.user, r.idToken.Subject, err)
       IN  IF r.err # Nil
           THEN AttemptFails(a(r.err), x, prompts)
           ELSE IF u.err # Nil
           THEN AttemptFails(a(u.err), x, prompts)
           ELSE IF r.idToken.isNil
           THEN \* idToken.Subject dereferences a nil pointer: the process dies
                /\ lpc' = "Crashed"
                /\ logmsg' = "panic: nil pointer dereference"
                /\ exch' = x
                /\ UNCHANGED <<lastAuth, hs, conn, cur, prompts>>
           ELSE IF ~subjectMatches(r.idToken, u.up)
           THEN /\ lastAuth' = a("unknown oidc subject")
                /\ exch' = x
                /\ prompts' = Append(prompts, notAuthorizedPrompt(r.idToken.Subject))
                /\ lpc' = "KIFinal"
                /\ UNCHANGED <<hs, conn, cur, logmsg>>
           ELSE /\ HandshakeSucceeds(a(Nil), x, [kind |-> "oidc", id |-> r.idToken.Subject])
    /\ UNCHANGED <<settings, load, nconn>>

\* the client acknowledges the final challenge: the callback returns its error
KIFinal ==
    /\ lpc = "KIFinal"
    /\ AttemptFails(lastAuth, exch, prompts)
    /\ UNCHANGED <<settings, load, nconn>>

\* addCertificate: the client answers the auth-agent@openssh.com channel open;
\* when it confirms, addCertToAgent mints the certificate and sends it
AgentOpenReply(confirmed) ==
    /\ lpc = "AgentOpen"
    /\ LET up == UserByName(settings, conn[cur].rec).up IN
       IF ~confirmed
       THEN /\ conn' = [conn EXCEPT ![cur] = addCertificateReturns(@, "refused",
                          "Could not open agent channel. Connect using agent forwarding (ssh -A)",
                          "ssh: rejected")]
            /\ BackToAccept
       ELSE /\ conn' = [conn EXCEPT ![cur] =
                          [@ EXCEPT !.agent = "open",
                                    !.certs = Append(@, MintCertificate(settings, up))]]
            /\ lpc' = "AgentInject"
            /\ UNCHANGED <<cur, hs, lastAuth, exch, prompts>>
    /\ UNCHANGED <<settings, load, nconn, logmsg>>

\* addCertificate: addCertToAgent returns, the deferred agentChan.Close() runs
AgentResponse(success) ==
    /\ lpc = "AgentInject"
    /\ conn' = [conn EXCEPT ![cur] =
                  IF success
                  THEN addCertificateReturns(@, "closed",
                         "Certification generation complete. Run 'ssh-add -l' to view", Nil)
                  ELSE addCertificateReturns(@, "closed",
                         "Certification creation error", "agent: failure")]
    /\ logmsg' = IF success THEN logmsg ELSE "certificate creation error"
    /\ BackToAccept
    /\ UNCHANGED <<settings, load, nconn>>

\* ------------------------------------------------- the session channel

\* a channel that still carries data after the server has closed it
termWriterAlways(cr, s) ==
    [cr EXCEPT !.term = Append(@, s), !.out = Append(@, "data")]

\* a write to the session channel reaches the client unless the server has
\* already sent the channel close (ssh.Channel refuses with io.EOF)
termWriter(cr, s) ==
    IF cr.sentClose THEN cr
    ELSE [cr EXCEPT !.term = Append(@, s), !.out = Append(@, "data")]

\* a handler that answers true to every request
ReplyTrue(cr, ok) ==
    IF cr.sentClose THEN cr ELSE [cr EXCEPT !.last.reply = "true"]

\* req.Reply(ok, nil)
Reply(cr, ok) ==
    IF cr.sentClose THEN cr
    ELSE [cr EXCEPT !.last.reply = IF ok THEN "true" ELSE "false"]

\* a chanCloser that reports success whatever happened
exitStatusZero(isError) == 0

\* a chanCloser that closes the channel without sending exit-status
chanCloserNoExit(cr, isError) ==
    [cr EXCEPT !.sentClose = TRUE, !.shells = @ + 1,
               !.out = IF cr.sentClose THEN @ ELSE Append(@, "close")]

\* chanCloser, the status it marshals
exitStatus(isError) == IF isError THEN 1 ELSE 0

\* chanCloser: send exit-status, then close the channel
chanCloser(cr, isError) ==
    LET sent == IF cr.sentClose THEN cr
                ELSE [cr EXCEPT !.exits = Append(@, exitStatus(isError)),
                                !.out = Append(@, "exit-status")]
    IN  [sent EXCEPT !.sentClose = TRUE, !.shells = @ + 1,
                     !.out = IF cr.sentClose THEN @ ELSE Append(@, "close")]

\* a shell branch that writes the result message before the error text
shellBranchMessageFirst(cr, s) ==
    LET t1 == termWriter(cr, s.Banner)
        t2 == termWriter(t1, "welcome, " \o cr.rec)
        t3 == termWriter(t2, cr.message)
        t4 == IF cr.result # Nil THEN termWriter(t3, cr.result) ELSE t3
        t5 == termWriter(t4, "goodbye\n")
    IN  chanCloser(t5, cr.result # Nil)

\* a shell branch that closes the channel before it writes to the terminal
shellBranchCloseFirst(cr, s) ==
    LET t0 == chanCloser(cr, cr.result # Nil)
        t1 == termWriter(t0, s.Banner)
        t2 == termWriter(t1, "welcome, " \o cr.rec)
        t3 == IF cr.result # Nil THEN termWriter(t2, cr.result) ELSE t2
        t4 == termWriter(t3, cr.message)
    IN  termWriter(t4, "goodbye\n")

\* handleChannels, the shell branch of the request loop
\* handleChannels, the shell branch of the request loop
shellBranch(cr, s) ==
    LET t1 == termWriter(cr, s.Banner)
        t2 == termWriter(t1, "welcome, " \o cr.rec)
        t3 == IF cr.result # Nil THEN termWriter(t2, cr.result) ELSE t2
        t4 == termWriter(t3, cr.message)
        t5 == termWriter(t4, "goodbye\n")
    IN  chanCloser(t5, cr.result # Nil)

\* a request handler that puts the deadline off with every request
handleRequestPostpones(cr, s, reqType, wantReply) ==
    LET ok == reqType \in {"auth-agent-req@openssh.com", "pty-req", "shell"}
        r1 == [cr EXCEPT !.nreq = @ + 1, !.limit = FALSE,
                         !.last = [type |-> reqType, wantReply |-> wantReply,
                                   reply |-> "none"]]
        r2 == IF wantReply THEN Reply(r1, ok) ELSE r1
    IN  IF reqType = "shell" THEN shellBranch(r2, s) ELSE r2

\* handleChannels, one turn of the request loop for a request of type reqType
handleRequest(cr, s, reqType, wantReply) ==
    LET ok == reqType \in {"auth-agent-req@openssh.com", "pty-req", "shell"}
        r1 == [cr EXCEPT !.nreq = @ + 1,
                         !.last = [type |-> reqType, wantReply |-> wantReply,
                                   reply |-> "none"]]
        r2 == IF wantReply THEN Reply(r1, ok) ELSE r1
    IN  IF reqType = "shell" THEN shellBranch(r2, s) ELSE r2

\* a worker that returns without closing the connection
closeConnLeak(cr, why) ==
    [cr EXCEPT !.wpc = "Done", !.why = why, !.last = NoRequest, !.extra = FALSE]

\* handleChannels returns: the deferred sshConn.Close() runs
closeConn(cr, why) ==
    [cr EXCEPT !.st = "closed", !.wpc = "Done", !.why = why,
               !.last = NoRequest, !.extra = FALSE]

\* a worker that accepts a first channel of any type
firstChannelAnyType(cr, chanType, acceptErr) ==
    LET c1 == [cr EXCEPT !.chanType = chanType] IN
    IF acceptErr
    THEN closeConn([c1 EXCEPT !.sess = "accept-error"], "did not accept")
    ELSE [c1 EXCEPT !.sess = "accepted", !.naccept = @ + 1, !.wpc = "Requests"]

\* handleChannels, the first select: the channel the client opens
firstChannel(cr, chanType, acceptErr) ==
    LET c1 == [cr EXCEPT !.chanType = chanType] IN
    IF chanType # "session"
    THEN closeConn([c1 EXCEPT !.sess = "Prohibited"], "not a session")
    ELSE IF acceptErr
    THEN closeConn([c1 EXCEPT !.sess = "accept-error"], "did not accept")
    ELSE [c1 EXCEPT !.sess = "accepted", !.naccept = @ + 1, !.wpc = "Requests"]

\* a worker that accepts whatever channel the client opens next
laterChannelAccept(cr, chanType) ==
    [cr EXCEPT !.extra = TRUE, !.naccept = @ + 1]

\* handleChannels after its first receive from chans: it never reads chans
\* again, so a later channel open stays in the queue, neither accepted nor
\* rejected, until the connection is closed
laterChannel(cr, chanType) == [cr EXCEPT !.extra = TRUE]

\* how many answers a client may send to the challenge
AnswerCounts == 0 .. 2

ChannelTypes == {"session", "direct-tcpip"}

RequestTypes == {"pty-req", "auth-agent-req@openssh.com", "shell", "env"}

\* the client opens its first channel
NewChannel(c, chanType, acceptErr) ==
    /\ Running
    /\ conn[c].wpc = "SelectChan"
    /\ conn' = [conn EXCEPT ![c] = firstChannel(@, chanType, acceptErr)]
    /\ UNCHANGED <<settings, load, lpc, cur, nconn, hs, lastAuth, exch, prompts, logmsg>>

\* the client opens another channel after its first one
LaterChannel(c, chanType) ==
    /\ Running
    /\ conn[c].wpc = "Requests"
    /\ ~conn[c].extra
    /\ conn' = [conn EXCEPT ![c] = laterChannel(@, chanType)]
    /\ UNCHANGED <<settings, load, lpc, cur, nconn, hs, lastAuth, exch, prompts, logmsg>>

\* the connection ends before any channel is opened: thisChan == nil
ChansClosed(c) ==
    /\ Running
    /\ conn[c].wpc = "SelectChan"
    /\ conn' = [conn EXCEPT ![c] = closeConn(@, "no channel")]
    /\ UNCHANGED <<settings, load, lpc, cur, nconn, hs, lastAuth, exch, prompts, logmsg>>

\* channel requests received so far on the connections of the set S
RECURSIVE RequestsOn(_)
RequestsOn(S) ==
    IF S = {} THEN 0
    ELSE LET c == CHOOSE x \in S : TRUE IN conn[c].nreq + RequestsOn(S \ {c})

\* the client sends a channel request on the session channel
Request(c, reqType, wantReply) ==
    /\ Running
    /\ conn[c].wpc = "Requests"
    /\ RequestsOn(Conns) < MaxRequests
    /\ conn' = [conn EXCEPT ![c] = handleRequest(@, settings, reqType, wantReply)]
    /\ UNCHANGED <<settings, load, lpc, cur, nconn, hs, lastAuth, exch, prompts, logmsg>>

\* the request stream of the session channel ends: req == nil
ReqsClosed(c) ==
    /\ Running
    /\ conn[c].wpc = "Requests"
    /\ conn' = [conn EXCEPT ![c] = closeConn(@, "no request")]
    /\ UNCHANGED <<settings, load, lpc, cur, nconn, hs, lastAuth, exch, prompts, logmsg>>

\* the deadline fires while the worker waits in one of its selects
Timeout(c) ==
    /\ Running
    /\ conn[c].wpc \in {"SelectChan", "Requests"}
    /\ conn[c].limit
    /\ conn' = [conn EXCEPT ![c] = closeConn(@, "timeout")]
    /\ UNCHANGED <<settings, load, lpc, cur, nconn, hs, lastAuth, exch, prompts, logmsg>>

\* ---------------------------------------------------------- specification

Next ==
    \/ TcpAccept
    \/ AcceptError
    \/ HandshakeAbort
    \/ \E name \in LoginNames, pubKey \in Keys, signed \in BOOLEAN :
          PubKeyAuth(name, pubKey, signed)
    \/ \E name \in LoginNames : KIStart(name)
    \/ \E n \in AnswerCounts : KIAnswer(n)
    \/ \E resp \in TokenResponses : KIExchange(resp)
    \/ KIFinal
    \/ \E confirmed \in BOOLEAN : AgentOpenReply(confirmed)
    \/ \E success \in BOOLEAN : AgentResponse(success)
    \/ \E c \in Conns, chanType \in ChannelTypes, acceptErr \in BOOLEAN :
          NewChannel(c, chanType, acceptErr)
    \/ \E c \in Conns, chanType \in ChannelTypes : LaterChannel(c, chanType)
    \/ \E c \in Conns : ChansClosed(c)
    \/ \E c \in Conns, reqType \in RequestTypes, wantReply \in BOOLEAN :
          Request(c, reqType, wantReply)
    \/ \E c \in Conns : ReqsClosed(c)
    \/ \E c \in Conns : Timeout(c)

Spec == Init /\ [][Next]_vars

\* The deadline of a worker is a timer of the Go runtime: once the worker
\* waits in a select, the timer fires and the select takes it unless the
\* worker leaves first.  Nothing is assumed of clients or of the provider.
FairSpec == Spec /\ \A c \in Conns : WF_vars(Timeout(c))

\* ------------------------------------------------------- start-up of main

\* main() has decoded a settings file and calls SettingsLoad, or a caller
\* hands a blob to LoadAuthorizedKeysBytes; Serve has not started
LoadInit ==
    /\ load \in {LoadCall("SettingsLoad", y, <<>>) : y \in YamlDocs}
                \cup {LoadCall("LoadAuthorizedKeysBytes", Nil, b) : b \in KeyBlobs}
    /\ settings = NoSettings
    /\ lpc = "NotStarted"
    /\ cur = 0
    /\ nconn = 0
    /\ hs = NoHandshake
    /\ lastAuth = NoAuth
    /\ exch = NoExchange
    /\ prompts = <<>>
    /\ logmsg = ""
    /\ conn = [c \in Conns |-> NewConn]

\* util.SettingsLoad returns; main() exits on an error and goes on to Serve
\* otherwise
LoadSettings ==
    /\ load.pc = "SettingsLoad"
    /\ LET r == SettingsLoad(load.yaml) IN
         /\ settings' = r.s
         /\ load' = [load EXCEPT !.pc = IF r.err = Nil THEN "Serve" ELSE "hardexit",
                                 !.err = r.err]
         /\ logmsg' = IF r.err = Nil THEN logmsg
                                     ELSE "Settings could not be loaded"
    /\ UNCHANGED <<lpc, cur, nconn, hs, lastAuth, exch, prompts, conn>>

\* util.LoadAuthorizedKeysBytes returns
LoadKeys ==
    /\ load.pc = "LoadAuthorizedKeysBytes"
    /\ LET r == LoadAuthorizedKeysBytes(load.blob) IN
         load' = [load EXCEPT !.pc = "returned", !.akeys = r.keys, !.err = r.err]
    /\ UNCHANGED <<settings, lpc, cur, nconn, hs, lastAuth, exch, prompts,
                   logmsg, conn>>

LoadNext == LoadSettings \/ LoadKeys

LoadSpec == LoadInit /\ [][LoadNext]_vars

\* ------------------------------------------------------------------ claims

\* the user records that hold public key k
HoldersOf(k) ==
    {i \in 1 .. Len(settings.Users) :
        \E j \in 1 .. Len(settings.Users[i].publicKeys) :
            settings.Users[i].publicKeys[j] = k}

\* credential cred is one the record u is configured with
HoldsCredential(u, cred) ==
    \/ /\ cred.kind = "publickey"
       /\ \E j \in 1 .. Len(u.publicKeys) : u.publicKeys[j] = cred.id
    \/ /\ cred.kind = "oidc"
       /\ u.OIDCSubject # ""
       /\ cred.id = u.OIDCSubject

\* C1: public-key authentication does not depend on the login name: a signed
\* request with a key configured for a user record U is accepted whatever
\* login name it claims, and the connection is then served for U.
C1_LoginNameIgnored ==
    (lastAuth.method = "publickey" /\ lastAuth.signed /\ HoldersOf(lastAuth.key) # {})
        => /\ lastAuth.ok
           /\ \E i \in HoldersOf(lastAuth.key) : conn[cur].rec = settings.Users[i].Name

\* C2: every certificate sent to a connection's agent carries the principals
\* of the record passed to addCertificate, and that record is configured with
\* the credential (public key or OIDC subject) the handshake proved.
C2_CertForProvenRecord ==
    \A c \in Conns : \A i \in 1 .. Len(conn[c].certs) :
        /\ conn[c].rec \in DOMAIN settings.usersByName
        /\ conn[c].certs[i].principals = settings.usersByName[conn[c].rec].Principals
        /\ HoldsCredential(settings.usersByName[conn[c].rec], conn[c].proved)

\* C3: the reverse agent channel is requested, a certificate is minted and a
\* worker exists only for a connection whose handshake ended with a successful
\* authentication; a public key proves nothing unless it is configured for the
\* record; after a failed handshake nothing was issued and the accept loop is
\* back in Accept unless it has taken a later connection.
C3_NoIssuanceWithoutAuth ==
    \A c \in Conns :
        /\ (conn[c].agent # "none" \/ conn[c].certs # <<>> \/ conn[c].wpc # "none")
              => /\ conn[c].st \in {"open", "closed"}
                 /\ conn[c].proved.kind # "none"
        /\ conn[c].proved.kind = "publickey"
              => /\ HoldersOf(conn[c].proved.id) # {}
                 /\ HoldsCredential(settings.usersByName[conn[c].rec], conn[c].proved)
        /\ (lastAuth.method = "publickey" /\ HoldersOf(lastAuth.key) = {})
              => ~lastAuth.ok
        /\ conn[c].st = "failed"
              => /\ conn[c].agent = "none" /\ conn[c].certs = <<>> /\ conn[c].wpc = "none"
                 /\ cur # c
                 /\ nconn = c => lpc = "Accept"

\* C3 witness: the first connection failed its handshake, the listener took
\* the second one, whose client has just had an unconfigured key rejected.
C3_Witness ==
    /\ conn[1].st = "failed" /\ conn[1].certs = <<>>
    /\ nconn = 2 /\ conn[2].st = "handshake"
    /\ lastAuth.method = "publickey" /\ lastAuth.key = "K3"
    /\ lastAuth.signed /\ ~lastAuth.ok

\* C4 as stated: a connection whose session channel was accepted is closed
\* only after exactly one exit-status was sent on it.
C4_ExactlyOneExitStatus ==
    \A c \in Conns :
        (conn[c].sess = "accepted" /\ conn[c].st = "closed") => Len(conn[c].exits) = 1

\* C4 amended: at most one exit-status is sent on a session channel, one is
\* sent exactly when a shell request has been handled, it precedes the server's
\* channel close, and a worker that returns without a shell request sent none.
C4_ExitStatusOnlyOnShell ==
    \A c \in Conns :
        /\ Len(conn[c].exits) <= 1
        /\ Len(conn[c].exits) = 1 <=> conn[c].shells >= 1
        /\ conn[c].sentClose => Len(conn[c].exits) = 1
        /\ conn[c].exits # <<>> => conn[c].sess = "accepted"

\* C4 witness: two shell requests were handled and one exit-status was sent,
\* while the other connection was closed by its deadline with none.
C4_Witness ==
    /\ conn[1].shells = 2 /\ Len(conn[1].exits) = 1
    /\ conn[2].sess = "accepted" /\ conn[2].why = "timeout" /\ conn[2].exits = <<>>

\* C5: the exit-status is 1 exactly when addCertificate returned an error and 0
\* exactly when it returned nil; a refused agent channel leaves the connection
\* open for its worker, which alone closes it.
C5_ExitStatusReportsIssuance ==
    \A c \in Conns :
        /\ \A i \in 1 .. Len(conn[c].exits) :
              /\ conn[c].result # "pending"
              /\ conn[c].exits[i] = 1 <=> conn[c].result # Nil
              /\ conn[c].exits[i] = 0 <=> conn[c].result = Nil
        /\ conn[c].agent = "refused"
              => /\ conn[c].result = "ssh: rejected"
                 /\ conn[c].wpc # "none"
                 /\ conn[c].st = "closed" <=> conn[c].wpc = "Done"

\* C5 witness: the first connection's agent channel was refused and its shell
\* got status 1; the second one's certificate was injected and it got 0.
C5_Witness ==
    /\ conn[1].agent = "refused" /\ conn[1].sess = "accepted" /\ conn[1].exits = <<1>>
    /\ conn[2].result = Nil /\ conn[2].exits = <<0>>

\* C6: when the session channel is accepted or refused, and so when any
\* channel request is answered, the attempt to open the agent channel is over
\* and addCertificate has returned its result; an opened agent channel has
\* carried the certificate and is closed.
C6_IssuanceBeforeSession ==
    \A c \in Conns :
        (conn[c].wpc # "none" \/ conn[c].sess # "none" \/ conn[c].nreq > 0
            \/ conn[c].term # <<>> \/ conn[c].exits # <<>>)
        => /\ conn[c].agent \in {"refused", "closed"}
           /\ conn[c].result # "pending"
           /\ conn[c].agent = "closed" => conn[c].certs # <<>>
           /\ cur # c

\* C6 witness: a shell request is answered on a connection whose certificate
\* was injected.
C6_Witness ==
    \E c \in Conns :
        /\ conn[c].last.type = "shell" /\ conn[c].last.reply = "true"
        /\ conn[c].agent = "closed" /\ conn[c].result = Nil /\ conn[c].certs # <<>>

\* C7: every connection that completes the handshake is eventually closed by
\* the server, whatever the client does or omits.
C7_EventuallyClosed ==
    \A c \in Conns :
        (conn[c].st = "open" /\ Running) ~> (conn[c].st = "closed" \/ ~Running)

\* C8: while a connection is in its handshake or in the agent exchange, the
\* listener is free to accept the next TCP connection.
C8_ListenerNotHeld ==
    \A c \in Conns :
        (conn[c].st = "handshake" \/ (conn[c].st = "open" /\ conn[c].wpc = "none"))
            => lpc = "Accept"

\* C9: no per-connection event ends the accept loop: the process keeps running.
C9_ListenerSurvives == Running

\* C10: CodeToIDToken never returns a nil token together with a nil error.
C10_TokenOrError ==
    exch.called => ~(exch.idToken.isNil /\ exch.err = Nil)

\* C11 as stated: every challenge that asks a question asks exactly one and
\* asks it with echo off, and the code exchange is reached only after such a
\* challenge.
C11_OneHiddenQuestion ==
    /\ \A i \in 1 .. Len(prompts) :
          prompts[i].questions # <<>>
              => /\ Len(prompts[i].questions) = 1
                 /\ prompts[i].echos = <<FALSE>>
    /\ lpc = "KIExchange" => prompts = <<codePrompt>>

\* no user record is configured with OIDC subject sub
NoUserHasSubject(sub) ==
    \A i \in 1 .. Len(settings.Users) : settings.Users[i].OIDCSubject # sub

\* C12 as stated: a keyboard-interactive attempt whose exchange gave a verified
\* token with a subject of no configured user is rejected, and the last
\* challenge sent before the rejection is "Not authorized for this service:
\* <sub>" with no question, whatever login name was claimed.
C12_NotAuthorizedMessage ==
    (/\ lastAuth.method = "keyboard-interactive"
     /\ exch.called /\ ~exch.idToken.isNil /\ exch.err = Nil
     /\ NoUserHasSubject(exch.idToken.Subject))
        => /\ ~lastAuth.ok
           /\ prompts # <<>>
           /\ prompts[Len(prompts)] = notAuthorizedPrompt(exch.idToken.Subject)

\* C13: without an OIDC provider a keyboard-interactive attempt ends with the
\* error "OpenIDC not configured" whatever login name it claims, no challenge
\* is sent, no code is exchanged, and no connection is authenticated by OIDC.
C13_NoProviderNoKeyboardInteractive ==
    settings.OpenIDC = Nil
        => /\ lpc \notin {"KIAnswer", "KIExchange", "KIFinal"}
           /\ prompts = <<>>
           /\ ~exch.called
           /\ lastAuth.method = "keyboard-interactive"
                 => /\ ~lastAuth.ok
                    /\ lastAuth.err = "OpenIDC not configured"
           /\ \A c \in Conns : conn[c].proved.kind # "oidc"

\* C13 witness: without a provider, a keyboard-interactive attempt under the
\* name of no user record was refused for the missing provider.
C13_Witness ==
    /\ settings.OpenIDC = Nil
    /\ lastAuth.method = "keyboard-interactive"
    /\ lastAuth.user = "mallory"
    /\ lastAuth.err = "OpenIDC not configured"

\* C14: when the first channel a client opens is not a session, it is refused
\* as Prohibited, no channel is accepted, nothing was sent on a session
\* channel, and the connection is closed.
C14_NonSessionProhibited ==
    \A c \in Conns :
        conn[c].chanType \notin {"", "session"}
            => /\ conn[c].sess = "Prohibited"
               /\ conn[c].naccept = 0
               /\ conn[c].term = <<>> /\ conn[c].out = <<>> /\ conn[c].exits = <<>>
               /\ conn[c].st = "closed" /\ conn[c].wpc = "Done"

\* C14 witness: an authenticated client opened direct-tcpip first.
C14_Witness ==
    \E c \in Conns :
        /\ conn[c].proved.kind # "none"
        /\ conn[c].chanType = "direct-tcpip"
        /\ conn[c].why = "not a session"

\* C15: a connection accepts at most one channel; the only channel accepted
\* is the first one opened, and a later channel open is never accepted.
C15_SingleShot ==
    \A c \in Conns :
        /\ conn[c].naccept <= 1
        /\ conn[c].naccept = 1 <=> conn[c].sess = "accepted"
        /\ conn[c].extra => conn[c].naccept = 1

\* C15 witness: a second channel open arrived on a connection whose session
\* channel is accepted, and requests were still served after it.
C15_Witness ==
    \E c \in Conns :
        /\ conn[c].extra /\ conn[c].naccept = 1
        /\ conn[c].last.type = "shell" /\ conn[c].exits # <<>>

\* the reply the request loop computes for a request of type t
ExpectedReply(t) ==
    IF t \in {"pty-req", "auth-agent-req@openssh.com", "shell"} THEN "true" ELSE "false"

\* the last request of conn[c] was handled before the shell branch closed the
\* session channel (the first shell request itself is)
HandledBeforeClose(c) ==
    \/ conn[c].shells = 0
    \/ conn[c].shells = 1 /\ conn[c].last.type = "shell"

\* C16 as stated: every request that asks for a reply gets true for the three
\* expected types and false for any other, and a request that asks for none
\* gets none.
C16_RepliesByType ==
    \A c \in Conns :
        conn[c].last.type # ""
            => conn[c].last.reply =
                  IF conn[c].last.wantReply THEN ExpectedReply(conn[c].last.type)
                  ELSE "none"

\* C16 amended: a request handled before the shell branch has closed the
\* channel gets that reply when it asks for one; a request that asks for none,
\* or that is handled after the close, gets no reply.
C16_RepliesBeforeClose ==
    \A c \in Conns :
        conn[c].last.type # ""
            => conn[c].last.reply =
                  IF conn[c].last.wantReply /\ HandledBeforeClose(c)
                  THEN ExpectedReply(conn[c].last.type)
                  ELSE "none"

\* C16 witness: a pty-req that asked for a reply after the shell was served
\* got none.
C16_Witness ==
    \E c \in Conns :
        /\ conn[c].shells = 1 /\ conn[c].exits # <<>>
        /\ conn[c].last = [type |-> "pty-req", wantReply |-> TRUE, reply |-> "none"]

ExpectedTerm(c) ==
    <<settings.Banner, "welcome, " \o settings.usersByName[conn[c].rec].Name>>
        \o (IF conn[c].result # Nil THEN <<conn[c].result>> ELSE <<>>)
        \o <<conn[c].message, "goodbye\n">>

\* C18: the session channel carries no text until a shell request is handled,
\* and then exactly: the banner, "welcome, <name>", the error text if and only
\* if addCertificate returned an error, the result message, "goodbye".
C18_TerminalText ==
    \A c \in Conns :
        IF conn[c].shells = 0
        THEN conn[c].term = <<>>
        ELSE conn[c].term = ExpectedTerm(c)

\* C18 witness: one session showed the error text of a refused agent channel,
\* the other was closed by its deadline and showed nothing.
C18_Witness ==
    /\ conn[1].result = "ssh: rejected" /\ Len(conn[1].term) = 5
    /\ conn[1].term[3] = "ssh: rejected"
    /\ conn[2].sess = "accepted" /\ conn[2].why = "timeout" /\ conn[2].term = <<>>

\* C19: on the session channel the channel close is the last thing sent and
\* the exit-status is sent immediately before it, after every terminal line;
\* no close is sent without it.
C19_ExitStatusBeforeClose ==
    \A c \in Conns :
        /\ conn[c].sentClose
              <=> (conn[c].out # <<>> /\ conn[c].out[Len(conn[c].out)] = "close")
        /\ \A i \in 1 .. Len(conn[c].out) :
              /\ conn[c].out[i] = "close"
                    => /\ i = Len(conn[c].out)
                       /\ i > 1 /\ conn[c].out[i - 1] = "exit-status"
              /\ conn[c].out[i] = "exit-status"
                    => /\ i = Len(conn[c].term) + 1
                       /\ conn[c].term = ExpectedTerm(c)
                       /\ \A j \in 1 .. i - 1 : conn[c].out[j] = "data"

\* C19 witness: a served shell: five lines with the error text, exit-status 1,
\* then the close.
C19_Witness ==
    \E c \in Conns :
        /\ conn[c].exits = <<1>>
        /\ conn[c].out = <<"data", "data", "data", "data", "data", "exit-status", "close">>

\* C20: a connection whose worker has returned, or whose user lookup failed
\* after the handshake, is closed; the agent channel is open only while
\* addCertificate waits for the agent's answer and is closed once
\* addCertificate has returned; a connection is open only while addCertificate
\* or its worker is still at work on it.
C20_ClosedOnEveryExit ==
    \A c \in Conns :
        /\ conn[c].wpc = "Done" => conn[c].st = "closed"
        /\ conn[c].why # "" => conn[c].st = "closed"
        /\ conn[c].agent = "open" => (cur = c /\ lpc = "AgentInject")
        /\ conn[c].result # "pending" => conn[c].agent \in {"refused", "closed"}
        /\ conn[c].st = "open"
              => \/ cur = c /\ lpc \in {"AgentOpen", "AgentInject"}
                 \/ conn[c].wpc \in {"SelectChan", "Requests"} /\ conn[c].limit

\* C20 witness: the first connection was closed after a served shell and an
\* injection that closed its agent channel, the second after a channel accept
\* error.
C20_Witness ==
    /\ conn[1].st = "closed" /\ conn[1].shells = 1 /\ conn[1].agent = "closed"
    /\ conn[2].st = "closed" /\ conn[2].sess = "accept-error"

\* ------------------------------------------------ claims about the loader

\* C21: of the files with at least one user, those whose validity is below 60
\* seconds are rejected with the minimum-validity error, those above 24 hours
\* with the maximum-validity error, and a validity from 60 seconds to 24 hours,
\* both ends included, never draws either error; a file that is sound in all
\* else is accepted exactly when its validity is in that range.
C21_ValidityWindow ==
    (load.pc \in {"Serve", "hardexit"} /\ Len(load.yaml.Users) > 0) =>
        LET v == load.yaml.Validity
            inRange == 60 <= v /\ v <= 24 * 3600
        IN  /\ v < 60 => load.err = "validity is below minimum validity"
            /\ v > 24 * 3600 => load.err = "validity is above maximum validity"
            /\ inRange => load.err \notin {"validity is below minimum validity",
                                           "validity is above maximum validity"}
            /\ (/\ load.yaml.Users = <<UserAlice>>
                /\ DOMAIN load.yaml.Extensions = {}
                /\ load.yaml.OpenIDC = Nil)
                   => (load.pc = "Serve" <=> inRange)

\* a file of exactly 24 hours has been accepted
C21_Witness ==
    load.pc = "Serve" /\ load.yaml.Validity = 24 * 3600

C24_FingerprintMatchesKey ==
    load.pc \in {"Serve", "hardexit"} =>
        /\ load.pc = "Serve" =>
              \A i \in 1 .. Len(settings.Users) :
                  LET u == settings.Users[i] IN
                  (u.AuthorizedKey # <<>> /\ u.Fingerprint # "") =>
                      /\ Len(u.publicKeys) = 1
                      /\ u.Fingerprint = FingerprintSHA256(u.publicKeys[1])
                      /\ u.Fingerprint = "SHA256:" \o Digest(u.publicKeys[1])
        /\ (\E i \in 1 .. Len(load.yaml.Users) :
               /\ load.yaml.Users[i].AuthorizedKey # <<>>
               /\ load.yaml.Users[i].Fingerprint
                     \in {TruncatedFingerprint, AlteredFingerprint})
              => load.pc = "hardexit"

\* a record with key K1 and the fingerprint of K1 cut to 49 characters has
\* been rejected for the mismatch
C24_Witness ==
    /\ load.pc = "hardexit"
    /\ load.err = "mismatched fingerprint and public key"
    /\ Len(load.yaml.Users) = 1
    /\ load.yaml.Users[1].AuthorizedKey = <<"K1">>
    /\ load.yaml.Users[1].Fingerprint = TruncatedFingerprint

\* C25 as stated: a file that is sound in all else and whose one record has a
\* fingerprint and no authorized_key is accepted exactly when the fingerprint
\* is 50 characters long and begins with "SHA256:".
C25_FingerprintOnlyAccepted ==
    (/\ load.pc \in {"Serve", "hardexit"}
     /\ Len(load.yaml.Users) = 1
     /\ load.yaml.Users[1].Name # ""
     /\ Len(load.yaml.Users[1].Principals) >= 1
     /\ load.yaml.Users[1].AuthorizedKey = <<>>
     /\ load.yaml.Users[1].Fingerprint # ""
     /\ load.yaml.OpenIDC \in {Nil, "oidc"}
     /\ load.yaml.Users[1].OIDCSubject # "" => load.yaml.OpenIDC = "oidc") =>
        LET fp == load.yaml.Users[1].Fingerprint IN
        load.pc = "Serve" <=> (Len(fp) = 50 /\ SubSeq(fp, 1, 7) = "SHA256:")

C27_ExactlyOneKey ==
    load.pc \in {"Serve", "hardexit"} =>
        LET keyLines(b) == {j \in 1 .. Len(b) : b[j] \in {"K1", "K3"}} IN
        /\ load.pc = "Serve" =>
              \A i \in 1 .. Len(settings.Users) :
                  LET u == settings.Users[i] IN
                  /\ u.AuthorizedKey # <<>> =>
                        /\ Len(u.publicKeys) = 1
                        /\ Cardinality(keyLines(u.AuthorizedKey)) = 1
                        /\ \A j \in keyLines(u.AuthorizedKey) :
                              u.publicKeys[1] = u.AuthorizedKey[j]
                  /\ u.AuthorizedKey = <<>> => u.publicKeys = <<>>
        /\ (\E i \in 1 .. Len(load.yaml.Users) :
               LET b == load.yaml.Users[i].AuthorizedKey IN
               /\ b # <<>>
               /\ \/ Cardinality(keyLines(b)) # 1
                  \/ b[Len(b)] \notin {"K1", "K3"})
              => load.pc = "hardexit"

\* a record whose blob holds two keys has been rejected for their number
C27_Witness ==
    /\ load.pc = "hardexit"
    /\ load.err = "unexpected number of keys in authorized_key entry"
    /\ load.yaml.Users[1].AuthorizedKey = <<"K1", "K3">>

\* C28: a file with an oidc_subject in some record and no oidc section is
\* rejected, by the provider error when nothing before it is at fault; the
\* same file with an oidc section passes validate; and a file that has an
\* oidc section never draws the provider error, also when the issuer of the
\* section is missing or out of reach, which only OpenIDC.Init finds.
C28_SubjectNeedsProvider ==
    load.pc \in {"Serve", "hardexit"} =>
        LET y == load.yaml
            usesOIDC == \E i \in 1 .. Len(y.Users) : y.Users[i].OIDCSubject # ""
            notConfigured ==
                "oidc authorization used but oidc provider not configured"
        IN  /\ (usesOIDC /\ y.OpenIDC = Nil) =>
                  /\ load.pc = "hardexit"
                  /\ \A o \in {"oidc", "oidc-no-issuer", "oidc-unreachable"} :
                        validate([y EXCEPT !.OpenIDC = o]) = Nil
                            <=> load.err = notConfigured
            /\ y.OpenIDC # Nil => load.err # notConfigured
            /\ (y.OpenIDC # Nil /\ load.err \in {"issuer is missing",
                                                 "provider discovery failed"})
                  => validate(y) = Nil
            /\ load.err = notConfigured => usesOIDC /\ y.OpenIDC = Nil

\* a file with an oidc_subject and no oidc section has been rejected by the
\* provider error
C28_Witness ==
    /\ load.pc = "hardexit"
    /\ load.err = "oidc authorization used but oidc provider not configured"
    /\ load.yaml.Users[1].OIDCSubject = "sub-b"

\* C29 as stated: in a loaded configuration no two user records have a key
\* with the same fingerprint, and no two have the same oidc_subject.
C29_UniqueCredentials ==
    load.pc = "Serve" =>
        \A i, j \in 1 .. Len(settings.Users) :
            i < j =>
                LET u == settings.Users[i]
                    w == settings.Users[j]
                IN  /\ \A k \in 1 .. Len(u.publicKeys) :
                          \A l \in 1 .. Len(w.publicKeys) :
                              FingerprintSHA256(u.publicKeys[k])
                                  # FingerprintSHA256(w.publicKeys[l])
                    /\ u.OIDCSubject # "" => u.OIDCSubject # w.OIDCSubject

\* C30: LoadAuthorizedKeysBytes returns for every input; what it returns are
\* the keys of all key lines of the input, in input order; the error is nil
\* exactly when the input is empty or its last line holds a key, so an input
\* of n key lines gives n keys and no error, and a line without a key is
\* passed over when a key line follows it.
C30_KeysOfAllKeyLines ==
    /\ load.pc = "LoadAuthorizedKeysBytes" => ENABLED LoadKeys
    /\ load.pc = "returned" =>
          LET isKey(l) == l \in {"K1", "K3"}
              b == load.blob
          IN  /\ load.akeys = SelectSeq(b, isKey)
              /\ load.err = Nil <=> (b = <<>> \/ isKey(b[Len(b)]))
              /\ (\A j \in 1 .. Len(b) : isKey(b[j]))
                    => load.akeys = b /\ load.err = Nil

\* C30 as stated: an input of key lines only gives all its keys and no
\* error; an input with a line that does not parse gives the keys of the
\* lines before the first such line, and an error.
C30_KeysBeforeFirstBadLine ==
    load.pc = "returned" =>
        LET b == load.blob
            bad == {j \in 1 .. Len(b) : b[j] \notin {"K1", "K3"}}
        IN  /\ bad = {} => load.akeys = b /\ load.err = Nil
            /\ bad # {} =>
                  LET first == CHOOSE j \in bad : \A k \in bad : j <= k IN
                  /\ load.akeys = SubSeq(b, 1, first - 1)
                  /\ load.err # Nil

\* a line without a key followed by a key line has given that key and no error
C30_Witness ==
    /\ load.pc = "returned"
    /\ load.blob = <<BadLine, "K1">>
    /\ load.akeys = <<"K1">>
    /\ load.err = Nil

\* ------------------------------------- claims about issuance and sessions

\* C31: every certificate sent to an agent has a window as long as the
\* configured validity, and none has a window longer than 24 hours.
C31_CertificateValidity ==
    \A c \in Conns : \A i \in 1 .. Len(conn[c].certs) :
        /\ conn[c].certs[i].validity = settings.Validity
        /\ conn[c].certs[i].validity <= 24 * 3600
        /\ conn[c].certs[i].validity >= 60

\* a certificate of exactly 24 hours has been issued
C31_Witness ==
    \E c \in Conns :
        /\ conn[c].certs # <<>>
        /\ conn[c].certs[1].validity = 24 * 3600

\* C32: the lookup after the handshake never fails: no connection is closed
\* with INTERNAL ERROR, every successful attempt and every authenticated
\* connection names a user of the directory, the record passed on is the one
\* of that name, and the directory is the one that was loaded.
C32_LookupNeverFails ==
    /\ logmsg # "INTERNAL ERROR: unable to find user"
    /\ settings = SettingsLoad(load.yaml).s
    /\ lastAuth.ok => UserByName(settings, lastAuth.user).err = Nil
    /\ \A c \in Conns :
          /\ conn[c].why # "INTERNAL ERROR"
          /\ conn[c].proved.kind # "none" =>
                /\ UserByName(settings, conn[c].user).err = Nil
                /\ conn[c].rec = conn[c].user
                /\ conn[c].rec = UserByName(settings, conn[c].user).up.Name

\* a connection authenticated over keyboard-interactive is open and the
\* record of its login name has been passed to addCertificate
C32_Witness ==
    \E c \in Conns :
        /\ conn[c].st = "open"
        /\ conn[c].proved.kind = "oidc"
        /\ conn[c].user = "bob"
        /\ conn[c].rec = "bob"

\* C33 as stated: a keyboard-interactive attempt succeeds, and a connection is
\* authenticated by OIDC, only when the record of the login name has a
\* non-empty oidc_subject and the sub of the verified token equals it.
C33_OIDCNeedsConfiguredSubject ==
    /\ (lastAuth.method = "keyboard-interactive" /\ lastAuth.ok) =>
          /\ lastAuth.user \in DOMAIN settings.usersByName
          /\ settings.usersByName[lastAuth.user].OIDCSubject # ""
          /\ lastAuth.sub = settings.usersByName[lastAuth.user].OIDCSubject
    /\ \A c \in Conns :
          conn[c].proved.kind = "oidc" =>
              /\ conn[c].rec \in DOMAIN settings.usersByName
              /\ settings.usersByName[conn[c].rec].OIDCSubject # ""
              /\ conn[c].proved.id = settings.usersByName[conn[c].rec].OIDCSubject

\* C34: the deadline is armed from the start of the worker on and stays
\* armed: a connection without a worker has no deadline, and in every state
\* in which the worker waits in one of its selects, whether or not it has
\* accepted the session channel and whatever number of requests it has
\* handled, the deadline is armed and the timer case can be taken.
C34_DeadlineArmedOnce ==
    \A c \in Conns :
        /\ conn[c].wpc = "none" => ~conn[c].limit
        /\ conn[c].wpc # "none" => conn[c].limit
        /\ (Running /\ conn[c].wpc \in {"SelectChan", "Requests"})
              => ENABLED Timeout(c)

\* the deadline has ended a session whose client sent MaxRequests requests,
\* none of them shell
C34_Witness ==
    \E c \in Conns :
        /\ conn[c].why = "timeout"
        /\ conn[c].sess = "accepted"
        /\ conn[c].nreq = MaxRequests
        /\ conn[c].shells = 0

====
